---- MODULE Spec2Model ----
(***************************************************************************)
(* Model of Macro_Mentzer_bot.py: the calorie calculator, the macro        *)
(* splitter, the meal composer and the handle_message request handler.     *)
(*                                                                         *)
(* Text is a sequence of one-character strings.  Floating point values are *)
(* modelled as exact rationals [n, d] (d > 0, lowest terms) together with  *)
(* the two non-finite floats; round() is round-half-to-even as in Python.  *)
(***************************************************************************)
EXTENDS Integers, Sequences, FiniteSets, TLC

----------------------------------------------------------------------------
(* Bounds of the model *)

\* number of concurrently running handle_message invocations (SpecConc)
NumHandlers == 2
\* largest calories value fed to mentzer_macros in SpecMacros
MaxCalories == 120
\* largest daily gram value of a plan fed to build_daily_meals in SpecMeals
MaxGrams == 4
\* largest per-meal target fed to build_meal_from_foods in SpecFoods
MaxTarget == 1
\* longest message, in tokens, that is received
MaxTokens == 5

----------------------------------------------------------------------------
(* Characters and strings *)

DigitChars == <<"0", "1", "2", "3", "4", "5", "6", "7", "8", "9">>
UpperChars ==
    <<"A", "B", "C", "D", "E", "F", "G", "H", "I", "J", "K", "L", "M",
      "N", "O", "P", "Q", "R", "S", "T", "U", "V", "W", "X", "Y", "Z">>
LowerOfUpper ==
    <<"a", "b", "c", "d", "e", "f", "g", "h", "i", "j", "k", "l", "m",
      "n", "o", "p", "q", "r", "s", "t", "u", "v", "w", "x", "y", "z">>

\* U+00B2 SUPERSCRIPT TWO: str.isdigit() is True for it, int() rejects it
SuperTwo == "sup2"

IndexOf(seq, c) == CHOOSE i \in 1..Len(seq) : seq[i] = c

InSeq(seq, c) == \E i \in 1..Len(seq) : seq[i] = c

IsAsciiDigit(c) == InSeq(DigitChars, c)

DigitVal(c) == IndexOf(DigitChars, c) - 1

IsSpace(c) == c = " "

\* str.lower() on one character
LowerChar(c) == IF InSeq(UpperChars, c) THEN LowerOfUpper[IndexOf(UpperChars, c)] ELSE c

\* str.lower()
Lower(s) == [i \in 1..Len(s) |-> LowerChar(s[i])]

RECURSIVE LStrip(_)
LStrip(s) == IF s # <<>> /\ IsSpace(Head(s)) THEN LStrip(Tail(s)) ELSE s

RECURSIVE RStrip(_)
RStrip(s) ==
    IF s # <<>> /\ IsSpace(s[Len(s)]) THEN RStrip(SubSeq(s, 1, Len(s) - 1)) ELSE s

\* str.strip()
Strip(s) == RStrip(LStrip(s))

\* first whitespace position of s, or Len(s) + 1
RECURSIVE TokenEnd(_, _)
TokenEnd(s, i) == IF i > Len(s) \/ IsSpace(s[i]) THEN i ELSE TokenEnd(s, i + 1)

\* str.split() with no separator: runs of whitespace separate, no empty tokens
RECURSIVE Split(_)
Split(s) ==
    LET t == LStrip(s) IN
    IF t = <<>> THEN <<>>
    ELSE LET e == TokenEnd(t, 1) IN
         <<SubSeq(t, 1, e - 1)>> \o Split(SubSeq(t, e, Len(t)))

\* str.isdigit(): non-empty and every character has the Unicode digit property
IsDigit(s) == s # <<>> /\ \A i \in 1..Len(s) : IsAsciiDigit(s[i]) \/ s[i] = SuperTwo

\* every character is a decimal digit
IsDecimal(s) == s # <<>> /\ \A i \in 1..Len(s) : IsAsciiDigit(s[i])

RECURSIVE DigitsVal(_)
DigitsVal(s) == IF s = <<>> THEN 0 ELSE 10 * DigitsVal(SubSeq(s, 1, Len(s) - 1)) + DigitVal(s[Len(s)])

\* int(token) of a sign-free token: ValueError unless every character is a
\* decimal digit
ParseInt(s) ==
    IF IsDecimal(s) THEN [exc |-> "none", val |-> DigitsVal(s)]
    ELSE [exc |-> "ValueError", val |-> 0]

----------------------------------------------------------------------------
(* Rationals *)

Abs(x) == IF x < 0 THEN -x ELSE x

RECURSIVE GCD(_, _)
GCD(a, b) == IF b = 0 THEN a ELSE GCD(b, a % b)

Rat(n, d) ==
    LET g == GCD(Abs(n), Abs(d))
        s == IF d < 0 THEN -1 ELSE 1
    IN [n |-> s * (n \div g), d |-> s * (d \div g)]

RInt(k) == [n |-> k, d |-> 1]

RMul(a, b) ==
    LET x == Rat(a.n, b.d)
        y == Rat(b.n, a.d)
    IN [n |-> x.n * y.n, d |-> x.d * y.d]

RDiv(a, b) == RMul(a, Rat(b.d, b.n))

RSub(a, b) ==
    LET g == GCD(a.d, b.d) IN
    Rat(a.n * (b.d \div g) - b.n * (a.d \div g), (a.d \div g) * b.d)

RLeq(a, b) == RSub(a, b).n <= 0

\* mutant of RMax: the floor at zero is left out
RMaxUnclamped(a, b) == a

\* max(a, b) of Python: the first argument unless the second is greater
RMax(a, b) == IF RLeq(b, a) THEN a ELSE b

\* round(x) of Python on a float: nearest integer, ties to even
Round(r) ==
    LET q == r.n \div r.d
        m == r.n % r.d
    IN IF 2 * m < r.d THEN q
       ELSE IF 2 * m > r.d THEN q + 1
       ELSE IF q % 2 = 0 THEN q ELSE q + 1

----------------------------------------------------------------------------
(* float(): the values a Python float can hold, as far as the program can  *)
(* tell them apart: a finite rational, +/- infinity, NaN.                  *)

Fin(n, d) == [kind |-> "fin", neg |-> n < 0, n |-> Rat(n, d).n, d |-> Rat(n, d).d]
Inf(neg) == [kind |-> "inf", neg |-> neg, n |-> 0, d |-> 1]
NaN == [kind |-> "nan", neg |-> FALSE, n |-> 0, d |-> 1]
FloatError == [kind |-> "err", neg |-> FALSE, n |-> 0, d |-> 1]

\* index of the first c in s, 0 when there is none
Find(s, c) == IF InSeq(s, c) THEN CHOOSE i \in 1..Len(s) : s[i] = c /\ \A j \in 1..(i - 1) : s[j] # c ELSE 0

AllAsciiDigits(s) == \A i \in 1..Len(s) : IsAsciiDigit(s[i])

RECURSIVE Pow10(_)
Pow10(k) == IF k = 0 THEN 1 ELSE 10 * Pow10(k - 1)

\* number of decimal digits of m > 0
RECURSIVE NumDigits(_)
NumDigits(m) == IF m < 10 THEN 1 ELSE 1 + NumDigits(m \div 10)

\* float(token) of a whitespace-free, lower-cased token:
\*   [sign] (inf | infinity | nan)  or  [sign] digits [. digits] [e [sign] digits]
\* A literal of magnitude 10^309 or more is larger than every finite double
\* (the largest is about 1.797e308) and float() returns infinity.
ParseFloat(tok) ==
    LET signed == tok # <<>> /\ Head(tok) \in {"+", "-"}
        neg == tok # <<>> /\ Head(tok) = "-"
        body == IF signed THEN Tail(tok) ELSE tok
        ePos == Find(body, "e")
        mant == IF ePos = 0 THEN body ELSE SubSeq(body, 1, ePos - 1)
        expo == IF ePos = 0 THEN <<>> ELSE SubSeq(body, ePos + 1, Len(body))
        eSigned == expo # <<>> /\ Head(expo) \in {"+", "-"}
        eNeg == expo # <<>> /\ Head(expo) = "-"
        eDigits == IF eSigned THEN Tail(expo) ELSE expo
        dot == Find(mant, ".")
        ip == IF dot = 0 THEN mant ELSE SubSeq(mant, 1, dot - 1)
        fp == IF dot = 0 THEN <<>> ELSE SubSeq(mant, dot + 1, Len(mant))
        okMant == AllAsciiDigits(ip) /\ AllAsciiDigits(fp) /\ Len(ip) + Len(fp) > 0
        okExp == ePos = 0 \/ IsDecimal(eDigits)
        m == DigitsVal(ip \o fp)
        e == (IF eNeg THEN -1 ELSE 1) * DigitsVal(eDigits) - Len(fp)
    IN IF body \in {<<"i", "n", "f">>, <<"i", "n", "f", "i", "n", "i", "t", "y">>}
         THEN Inf(neg)
       ELSE IF body = <<"n", "a", "n">> THEN NaN
       ELSE IF ~(okMant /\ okExp) THEN FloatError
       ELSE IF m = 0 THEN Fin(0, 1)
       ELSE IF NumDigits(m) + e > 309 THEN Inf(neg)
       ELSE IF e >= 0 THEN Fin((IF neg THEN -1 ELSE 1) * m * Pow10(e), 1)
       ELSE Fin((IF neg THEN -1 ELSE 1) * m, Pow10(-e))

\* weight_kg <= 0 on a float: False for NaN, as every comparison with NaN is
FloatLeqZero(x) ==
    CASE x.kind = "fin" -> x.n <= 0
      [] x.kind = "inf" -> x.neg
      [] OTHER -> FALSE

----------------------------------------------------------------------------
(* Mentzer calories and macros *)

CUT == <<"c", "u", "t">>
MAINTAIN == <<"m", "a", "i", "n", "t", "a", "i", "n">>
BULK == <<"b", "u", "l", "k">>
HC == <<"h", "c">>
HP == <<"h", "p">>
HF == <<"h", "f">>
HIGHCARB == <<"h", "i", "g", "h", "c", "a", "r", "b">>
MENTZER == <<"m", "e", "n", "t", "z", "e", "r">>
HIGHPROTEIN == <<"h", "i", "g", "h", "p", "r", "o", "t", "e", "i", "n">>
PROTEIN == <<"p", "r", "o", "t", "e", "i", "n">>
HIGHFAT == <<"h", "i", "g", "h", "f", "a", "t">>
FAT == <<"f", "a", "t">>

\* the factors dict: calories per pound of bodyweight
factors == (CUT :> 10) @@ (MAINTAIN :> 12) @@ (BULK :> 15)

\* 2.20462 pounds per kilogram
LbsPerKg == Rat(220462, 100000)

Returned(v) == [exc |-> "none", val |-> v]
Raised(e) == [exc |-> e, val |-> 0]

\* mentzer_calories(weight_kg, goal): the goal is checked first; round() of
\* an infinite float raises OverflowError and of NaN raises ValueError
mentzer_calories(weight_kg, goal) ==
    LET g == Lower(Strip(goal)) IN
    IF g \notin DOMAIN factors THEN Raised("ValueError")
    ELSE IF weight_kg.kind = "inf" THEN Raised("OverflowError")
    ELSE IF weight_kg.kind = "nan" THEN Raised("ValueError")
    ELSE Returned(Round(RMul(RMul(Rat(weight_kg.n, weight_kg.d), LbsPerKg), RInt(factors[g]))))

alias_map ==
    (HIGHCARB :> HC) @@ (MENTZER :> HC) @@ (HIGHPROTEIN :> HP) @@ (PROTEIN :> HP)
    @@ (HIGHFAT :> HF) @@ (FAT :> HF)

\* mutant of macro_styles: a mistyped percentage in the high-protein row
macro_styles_typo ==
    (HC :> <<Rat(60, 100), Rat(25, 100), Rat(15, 100)>>)
    @@ (HP :> <<Rat(40, 100), Rat(35, 100), Rat(35, 100)>>)
    @@ (HF :> <<Rat(30, 100), Rat(25, 100), Rat(45, 100)>>)

\* (carb_pct, protein_pct, fat_pct), as rationals
macro_styles ==
    (HC :> <<Rat(60, 100), Rat(25, 100), Rat(15, 100)>>)
    @@ (HP :> <<Rat(40, 100), Rat(35, 100), Rat(25, 100)>>)
    @@ (HF :> <<Rat(30, 100), Rat(25, 100), Rat(45, 100)>>)

get_macro_split(style) ==
    LET s == Lower(style)
        k == IF s \in DOMAIN alias_map THEN alias_map[s] ELSE s
    IN IF k \notin DOMAIN macro_styles THEN Raised("ValueError")
       ELSE Returned([pcts |-> macro_styles[k], key |-> k])

RAdd(a, b) == RSub(a, [n |-> -b.n, d |-> b.d])

RAbs(a) == [n |-> Abs(a.n), d |-> a.d]

\* the 1e-6 tolerance of the percentage check
Tolerance == Rat(1, 1000000)

\* The double nearest to a percentage p = n/d (0 < p < 1) is M / 2^k with
\* 2^52 <= M < 2^53; ReprErr(p) is d*M - n*2^k, the sign and size of its
\* representation error, and ErrExp(p) is k - 53.
RECURSIVE ErrExp(_)
ErrExp(p) == IF 2 * p.n >= p.d THEN 0 ELSE 1 + ErrExp(Rat(2 * p.n, p.d))

RECURSIVE Pow2(_)
Pow2(k) == IF k = 0 THEN 1 ELSE 2 * Pow2(k - 1)

RECURSIVE Pow2Mod(_, _)
Pow2Mod(k, d) == IF k = 0 THEN 1 % d ELSE (2 * Pow2Mod(k - 1, d)) % d

ReprErr(p) ==
    LET m == (p.n * Pow2Mod(53 + ErrExp(p), p.d)) % p.d IN
    IF m = 0 THEN 0 ELSE IF 2 * m < p.d THEN -m ELSE p.d - m

\* the significand of t > 0, in [1, 2)
RECURSIVE Mant(_)
Mant(t) ==
    IF t.n >= 2 * t.d THEN Mant(Rat(t.n, 2 * t.d))
    ELSE IF t.n < t.d THEN Mant(Rat(2 * t.n, t.d))
    ELSE t

\* calories * pct in double arithmetic against the exact product: -1 when the
\* double is just below it, +1 when just above, 0 when it is the nearest
\* double.  The inexact percentage moves the product by more than half a unit
\* in the last place when the product's significand exceeds n*2^(k-53)/|err|.
MulDev(calories, pct) ==
    LET err == ReprErr(pct) IN
    IF calories = 0 \/ err = 0 THEN 0
    ELSE IF RLeq(Mant(RMul(RInt(calories), pct)),
                 Rat(pct.n * Pow2(ErrExp(pct)), Abs(err)))
         THEN 0
    ELSE IF err > 0 THEN 1 ELSE -1

\* mutant of RoundDev: int() in place of round(), the fraction is cut off
RoundDevTruncating(r, dev) == r.n \div r.d

\* round() of a double that lies dev (an infinitesimal) off the rational r
RoundDev(r, dev) ==
    LET q == r.n \div r.d
        m == r.n % r.d
    IN IF 2 * m < r.d THEN q
       ELSE IF 2 * m > r.d THEN q + 1
       ELSE IF dev < 0 THEN q
       ELSE IF dev > 0 THEN q + 1
       ELSE IF q % 2 = 0 THEN q ELSE q + 1

mentzer_macros(calories, carb_pct, protein_pct, fat_pct) ==
    LET total_pct == RAdd(RAdd(carb_pct, protein_pct), fat_pct)
        carb_kcal == RMul(RInt(calories), carb_pct)
        protein_kcal == RMul(RInt(calories), protein_pct)
        fat_kcal == RMul(RInt(calories), fat_pct)
    IN IF ~RLeq(RAbs(RSub(total_pct, RInt(1))), Tolerance) THEN Raised("ValueError")
       ELSE Returned([calories |-> calories,
                      carbs_g |-> RoundDev(RDiv(carb_kcal, RInt(4)), MulDev(calories, carb_pct)),
                      protein_g |-> RoundDev(RDiv(protein_kcal, RInt(4)),
                                             MulDev(calories, protein_pct)),
                      fats_g |-> RoundDev(RDiv(fat_kcal, RInt(9)), MulDev(calories, fat_pct)),
                      carb_pct |-> carb_pct,
                      protein_pct |-> protein_pct,
                      fat_pct |-> fat_pct])

mentzer_plan(weight_kg, goal, macro_style) ==
    LET calories == mentzer_calories(weight_kg, goal)
        split == get_macro_split(macro_style)
        macros == mentzer_macros(calories.val, split.val.pcts[1], split.val.pcts[2],
                                 split.val.pcts[3])
    IN IF calories.exc # "none" THEN Raised(calories.exc)
       ELSE IF split.exc # "none" THEN Raised(split.exc)
       ELSE IF macros.exc # "none" THEN Raised(macros.exc)
       ELSE Returned(macros.val @@ [macro_style |-> split.val.key])

----------------------------------------------------------------------------
(* Food database (per 100 g raw) and meal templates *)

\* one row of FOODS_PER_100G, its three values given in tenths of a gram
Food(p10, c10, f10) == [protein |-> Rat(p10, 10), carbs |-> Rat(c10, 10), fat |-> Rat(f10, 10)]

FOODS_PER_100G ==
    [oats_raw |-> Food(130, 670, 70),
     white_rice_raw |-> Food(70, 800, 6),
     potatoes_raw |-> Food(20, 170, 1),
     pasta_raw |-> Food(130, 750, 15),
     banana_raw |-> Food(11, 230, 3),
     apple_raw |-> Food(3, 140, 2),
     egg_whites_raw |-> Food(110, 10, 0),
     chicken_breast_raw |-> Food(310, 0, 36),
     beef_lean_raw |-> Food(260, 0, 100),
     salmon_raw |-> Food(200, 0, 130),
     tofu_firm_raw |-> Food(157, 35, 80),
     olive_oil |-> Food(0, 0, 1000),
     peanut_butter |-> Food(250, 200, 500),
     almonds_raw |-> Food(210, 220, 490)]

Template(l, p, c, f) == [label |-> l, protein |-> p, carb |-> c, fat |-> f]

MEAL_TEMPLATES ==
    <<Template("Breakfast", "egg_whites_raw", "oats_raw", "peanut_butter"),
      Template("Snack 1", "tofu_firm_raw", "banana_raw", "almonds_raw"),
      Template("Lunch", "chicken_breast_raw", "white_rice_raw", "olive_oil"),
      Template("Snack 2", "beef_lean_raw", "apple_raw", "peanut_butter"),
      Template("Dinner", "salmon_raw", "potatoes_raw", "olive_oil"),
      Template("Supper", "egg_whites_raw", "pasta_raw", "almonds_raw")>>

grams_needed_for_macro(target_macro_g, macro_per_100g) ==
    IF macro_per_100g.n <= 0 THEN RInt(0)
    ELSE RDiv(target_macro_g, RDiv(macro_per_100g, RInt(100)))

\* mutant of meal_grams: the fat of the carb food is not taken off the
\* remaining fat target
meal_grams_carb_fat_ignored(FOODS, target_protein, target_carbs, target_fats, protein_food_key, carb_food_key, fat_food_key) ==
    LET p_food == FOODS[protein_food_key]
        c_food == FOODS[carb_food_key]
        f_food == FOODS[fat_food_key]
        protein_food_g == grams_needed_for_macro(target_protein, p_food.protein)
        c_from_p == RMul(p_food.carbs, RDiv(protein_food_g, RInt(100)))
        f_from_p == RMul(p_food.fat, RDiv(protein_food_g, RInt(100)))
        rem_carbs == RMax(RSub(target_carbs, c_from_p), RInt(0))
        rem_fats == RMax(RSub(target_fats, f_from_p), RInt(0))
        carb_food_g == grams_needed_for_macro(rem_carbs, c_food.carbs)
        fat_food_g == grams_needed_for_macro(rem_fats, f_food.fat)
    IN <<protein_food_g, carb_food_g, fat_food_g>>

\* build_meal_from_foods, reading the food table FOODS; the three gram values
\* before rounding
meal_grams(FOODS, target_protein, target_carbs, target_fats, protein_food_key, carb_food_key, fat_food_key) ==
    LET p_food == FOODS[protein_food_key]
        c_food == FOODS[carb_food_key]
        f_food == FOODS[fat_food_key]
        protein_food_g == grams_needed_for_macro(target_protein, p_food.protein)
        c_from_p == RMul(p_food.carbs, RDiv(protein_food_g, RInt(100)))
        f_from_p == RMul(p_food.fat, RDiv(protein_food_g, RInt(100)))
        rem_carbs == RMax(RSub(target_carbs, c_from_p), RInt(0))
        rem_fats1 == RMax(RSub(target_fats, f_from_p), RInt(0))
        carb_food_g == grams_needed_for_macro(rem_carbs, c_food.carbs)
        f_from_c == RMul(c_food.fat, RDiv(carb_food_g, RInt(100)))
        rem_fats == RMax(RSub(rem_fats1, f_from_c), RInt(0))
        fat_food_g == grams_needed_for_macro(rem_fats, f_food.fat)
    IN <<protein_food_g, carb_food_g, fat_food_g>>

build_meal_from_foods(FOODS, target_protein, target_carbs, target_fats, protein_food_key, carb_food_key, fat_food_key) ==
    LET g == meal_grams(FOODS, target_protein, target_carbs, target_fats,
                        protein_food_key, carb_food_key, fat_food_key)
    IN <<<<protein_food_key, Round(g[1])>>,
         <<carb_food_key, Round(g[2])>>,
         <<fat_food_key, Round(g[3])>>>>

Min(a, b) == IF a < b THEN a ELSE b
Max(a, b) == IF a > b THEN a ELSE b

\* build_daily_meals, reading the tables FOODS and TEMPLATES
build_daily_meals(FOODS, TEMPLATES, plan, num_meals_arg) ==
    LET num_meals == Max(1, Min(6, num_meals_arg))
        per_meal_protein == Rat(plan.protein_g, num_meals)
        per_meal_carbs == Rat(plan.carbs_g, num_meals)
        per_meal_fats == Rat(plan.fats_g, num_meals)
    IN [i \in 1..num_meals |->
            LET template == TEMPLATES[((i - 1) % Len(TEMPLATES)) + 1] IN
            [label |-> template.label,
             items |-> build_meal_from_foods(FOODS, per_meal_protein, per_meal_carbs,
                                             per_meal_fats, template.protein,
                                             template.carb, template.fat)]]

macro_style_human(style_key) ==
    IF style_key = HC THEN "High carb (60C / 25P / 15F)"
    ELSE IF style_key = HP THEN "High protein (40C / 35P / 25F)"
    ELSE IF style_key = HF THEN "High fat (30C / 25P / 45F)"
    ELSE style_key

FOOD_LABELS ==
    [oats_raw |-> "Oats (raw)",
     white_rice_raw |-> "White rice (raw)",
     potatoes_raw |-> "Potatoes (raw)",
     pasta_raw |-> "Pasta (raw)",
     banana_raw |-> "Banana (raw)",
     apple_raw |-> "Apple (raw)",
     egg_whites_raw |-> "Egg whites (raw)",
     chicken_breast_raw |-> "Chicken breast (raw)",
     beef_lean_raw |-> "Lean beef (raw)",
     salmon_raw |-> "Salmon (raw)",
     tofu_firm_raw |-> "Firm tofu (raw)",
     olive_oil |-> "Olive oil",
     peanut_butter |-> "Peanut butter",
     almonds_raw |-> "Almonds (raw)"]

----------------------------------------------------------------------------
(* State *)

VARIABLES
    foods,      \* the module global FOODS_PER_100G
    templates,  \* the module global MEAL_TEMPLATES
    pc,         \* per handle_message invocation: its position
    text,       \* per invocation: update.message.text
    loc,        \* per invocation: its local variables
    sent,       \* per invocation: the replies passed to reply_text, in order
    escaped,    \* per invocation: the exception that left handle_message
    composed,   \* per invocation: the num_meals arguments given to build_daily_meals
    inp,        \* argument of a direct call of one of the pure functions
    out         \* result of that call

vars == <<foods, templates, pc, text, loc, sent, escaped, composed, inp, out>>

handlerVars == <<pc, text, loc, sent, escaped, composed>>

Handlers == DOMAIN pc

NoPlan == [calories |-> -1]

NoLocals ==
    [parts |-> <<>>, weight_kg |-> FloatError, goal |-> <<>>, macro_style |-> <<>>,
     meals |-> -1, plan |-> NoPlan, meals_data |-> <<>>]

NoCall == [op |-> "none"]

\* the fixed replies of handle_message, and the plan summary
FormatReply == [kind |-> "format"]
WeightReply == [kind |-> "weight"]
MealsParseReply == [kind |-> "meals_parse"]
MealsRangeReply == [kind |-> "meals_range"]
CheckInputReply == [kind |-> "check_input"]

\* f"{weight_kg:.1f}", as a number of tenths
FormatTenths(w) == Round(RMul(Rat(w.n, w.d), RInt(10)))

\* int(pct * 100)
PctInt(pct) == (100 * pct.n) \div pct.d

PlanReply(weight_kg, goal, plan, meals, meals_data) ==
    [kind |-> "plan",
     weight |-> FormatTenths(weight_kg),
     goal |-> goal,
     calories |-> plan.calories,
     style_label |-> macro_style_human(plan.macro_style),
     meals |-> meals,
     carbs |-> <<plan.carbs_g, PctInt(plan.carb_pct)>>,
     protein |-> <<plan.protein_g, PctInt(plan.protein_pct)>>,
     fats |-> <<plan.fats_g, PctInt(plan.fat_pct)>>,
     lines |-> [i \in 1..Len(meals_data) |->
                  [label |-> meals_data[i].label,
                   items |-> [j \in 1..Len(meals_data[i].items) |->
                                <<FOOD_LABELS[meals_data[i].items[j][1]],
                                  meals_data[i].items[j][2]>>]]]]

----------------------------------------------------------------------------
(* handle_message, one action per section of its body *)

\* await update.message.reply_text(...); return
ReplyAndReturn(h, reply) ==
    /\ sent' = [sent EXCEPT ![h] = Append(@, reply)]
    /\ pc' = [pc EXCEPT ![h] = "done"]

\* no early return: fall through to the next section
Continue(h, next) ==
    /\ pc' = [pc EXCEPT ![h] = next]
    /\ sent' = sent

\* lines 315-332: the empty-text return, strip/lower/split, the token count,
\* the defaults of macro_style and meals
Tokenize(h) ==
    /\ pc[h] = "start"
    /\ LET parts == Split(Lower(Strip(text[h]))) IN
       IF text[h] = <<>>
         THEN /\ pc' = [pc EXCEPT ![h] = "done"]
              /\ UNCHANGED <<sent, loc>>
       ELSE IF Len(parts) < 2 \/ Len(parts) > 4
         THEN /\ ReplyAndReturn(h, FormatReply)
              /\ loc' = [loc EXCEPT ![h].parts = parts]
       ELSE /\ Continue(h, "weight")
            /\ loc' = [loc EXCEPT ![h].parts = parts, ![h].goal = parts[2],
                                  ![h].macro_style = HC, ![h].meals = 3]
    /\ UNCHANGED <<foods, templates, text, escaped, composed, inp, out>>

\* lines 334-344: float(weight_str), rejected when it raises or is <= 0
ParseWeight(h) ==
    /\ pc[h] = "weight"
    /\ LET weight_kg == ParseFloat(loc[h].parts[1]) IN
       IF weight_kg.kind = "err" \/ FloatLeqZero(weight_kg)
         THEN /\ ReplyAndReturn(h, WeightReply)
              /\ loc' = loc
       ELSE /\ Continue(h, "rest")
            /\ loc' = [loc EXCEPT ![h].weight_kg = weight_kg]
    /\ UNCHANGED <<foods, templates, text, escaped, composed, inp, out>>

\* lines 346-367: the third and fourth token
ParseRest(h) ==
    /\ pc[h] = "rest"
    /\ LET remaining == SubSeq(loc[h].parts, 3, Len(loc[h].parts)) IN
       IF Len(remaining) = 1 /\ IsDigit(remaining[1])
         THEN IF ParseInt(remaining[1]).exc = "none"
                THEN /\ Continue(h, "range")
                     /\ loc' = [loc EXCEPT ![h].meals = ParseInt(remaining[1]).val]
              ELSE /\ ReplyAndReturn(h, MealsParseReply)
                   /\ loc' = loc
       ELSE IF Len(remaining) = 1
         THEN /\ Continue(h, "range")
              /\ loc' = [loc EXCEPT ![h].macro_style = remaining[1]]
       ELSE IF Len(remaining) = 2
         THEN IF IsDigit(remaining[2]) /\ ParseInt(remaining[2]).exc = "none"
                THEN /\ Continue(h, "range")
                     /\ loc' = [loc EXCEPT ![h].macro_style = remaining[1],
                                           ![h].meals = ParseInt(remaining[2]).val]
              ELSE /\ ReplyAndReturn(h, MealsParseReply)
                   /\ loc' = [loc EXCEPT ![h].macro_style = remaining[1]]
       ELSE /\ Continue(h, "range")
            /\ loc' = loc
    /\ UNCHANGED <<foods, templates, text, escaped, composed, inp, out>>

\* mutant of CheckMeals: the upper limit is off by one
CheckMealsUpTo7(h) ==
    /\ pc[h] = "range"
    /\ IF loc[h].meals < 1 \/ loc[h].meals > 7
         THEN ReplyAndReturn(h, MealsRangeReply)
       ELSE Continue(h, "plan")
    /\ UNCHANGED <<foods, templates, text, loc, escaped, composed, inp, out>>

\* lines 369-373: the range check of the meal count
CheckMeals(h) ==
    /\ pc[h] = "range"
    /\ IF loc[h].meals < 1 \/ loc[h].meals > 6
         THEN ReplyAndReturn(h, MealsRangeReply)
       ELSE Continue(h, "plan")
    /\ UNCHANGED <<foods, templates, text, loc, escaped, composed, inp, out>>

\* lines 375-384: mentzer_plan; only ValueError is caught
BuildPlan(h) ==
    /\ pc[h] = "plan"
    /\ LET plan == mentzer_plan(loc[h].weight_kg, loc[h].goal, loc[h].macro_style) IN
       IF plan.exc = "ValueError"
         THEN /\ ReplyAndReturn(h, CheckInputReply)
              /\ UNCHANGED <<loc, escaped>>
       ELSE IF plan.exc # "none"
         THEN /\ pc' = [pc EXCEPT ![h] = "done"]
              /\ escaped' = [escaped EXCEPT ![h] = plan.exc]
              /\ UNCHANGED <<loc, sent>>
       ELSE /\ Continue(h, "meals")
            /\ loc' = [loc EXCEPT ![h].plan = plan.val]
            /\ escaped' = escaped
    /\ UNCHANGED <<foods, templates, text, composed, inp, out>>

\* mutant of BuildMeals: the composer cycles the templates by rotating the
\* shared list in place
BuildMealsRotating(h) ==
    /\ pc[h] = "meals"
    /\ composed' = [composed EXCEPT ![h] = Append(@, loc[h].meals)]
    /\ loc' = [loc EXCEPT ![h].meals_data =
                   build_daily_meals(foods, templates, loc[h].plan, loc[h].meals)]
    /\ templates' = Tail(templates) \o <<Head(templates)>>
    /\ pc' = [pc EXCEPT ![h] = "reply"]
    /\ UNCHANGED <<foods, text, sent, escaped, inp, out>>

\* lines 386-388: build_daily_meals(plan, num_meals=meals)
BuildMeals(h) ==
    /\ pc[h] = "meals"
    /\ composed' = [composed EXCEPT ![h] = Append(@, loc[h].meals)]
    /\ loc' = [loc EXCEPT ![h].meals_data =
                   build_daily_meals(foods, templates, loc[h].plan, loc[h].meals)]
    /\ pc' = [pc EXCEPT ![h] = "reply"]
    /\ UNCHANGED <<foods, templates, text, sent, escaped, inp, out>>

\* lines 390-412: the summary is formatted and sent
SendPlan(h) ==
    /\ pc[h] = "reply"
    /\ ReplyAndReturn(h, PlanReply(loc[h].weight_kg, loc[h].goal, loc[h].plan,
                                   loc[h].meals, loc[h].meals_data))
    /\ UNCHANGED <<foods, templates, text, loc, escaped, composed, inp, out>>

----------------------------------------------------------------------------
(* Incoming messages *)

WeightTokens ==
    {<<"7", "5">>,
     <<"7", ".", "5">>,
     <<"0">>,
     <<"-", "5">>,
     <<"x">>,
     <<"i", "n", "f">>,
     <<"N", "a", "N">>,
     <<"1", "e", "9", "9", "9">>}

GoalTokens ==
    {<<"c", "u", "t">>,
     <<"B", "u", "l", "k">>,
     <<"m", "a", "i", "n", "t", "a", "i", "n">>,
     <<"g", "a", "i", "n">>}

ThirdTokens ==
    {<<"h", "p">>,
     <<"H", "F">>,
     <<"m", "e", "n", "t", "z", "e", "r">>,
     <<"k", "e", "t", "o">>,
     <<"4">>,
     <<"0">>,
     <<"7">>,
     <<SuperTwo>>}

FourthTokens ==
    {<<"1">>,
     <<"6">>,
     <<"7">>,
     <<"0">>,
     <<"x">>,
     <<SuperTwo>>}

RECURSIVE Join(_)
Join(tokens) ==
    IF tokens = <<>> THEN <<>>
    ELSE IF Len(tokens) = 1 THEN tokens[1]
    ELSE tokens[1] \o <<" ">> \o Join(Tail(tokens))

\* a valid four-token message followed by n more tokens
Padded(n) == Join(<<<<"7", "5">>, <<"c", "u", "t">>, <<"h", "p">>>> \o [i \in 1..(n + 1) |-> <<"4">>])

\* the texts the transport delivers: non-empty (filters.TEXT), of up to
\* MaxTokens tokens, some with surrounding or repeated whitespace
Messages ==
    {Join(<<w>>) : w \in WeightTokens}
    \cup {Join(<<w, g>>) : w \in WeightTokens, g \in GoalTokens}
    \cup {Join(<<w, g, t>>) : w \in WeightTokens, g \in GoalTokens, t \in ThirdTokens}
    \cup {Join(<<w, g, t, m>>) : w \in WeightTokens, g \in GoalTokens,
                                 t \in ThirdTokens, m \in FourthTokens}
    \cup {Padded(n - 4) : n \in 5..MaxTokens}
    \cup {<<" ">>, <<" ", " ", "7", "5", " ", " ", " ", "c", "u", "t", " ", " ">>, <<" ", "7", ".", "5", " ", "B", "U", "L", "K", " ", " ", "h", "f", " ", "2", " ">>}

\* the texts of the concurrent runs
ConcMessages ==
    {<<"7", "5", " ", "c", "u", "t">>,
     <<"7", ".", "5", " ", "B", "u", "l", "k", " ", "H", "F", " ", "6">>,
     <<"i", "n", "f", " ", "c", "u", "t">>,
     <<"7", "5", " ", "c", "u", "t", " ", "7">>,
     <<"N", "a", "N", " ", "m", "a", "i", "n", "t", "a", "i", "n", " ", "m", "e", "n", "t", "z", "e", "r", " ", "1">>,
     <<"x">>}

----------------------------------------------------------------------------
(* The handler: one invocation per incoming message *)

\* the transport calls handle_message with the next text message
Receive(h, incoming) ==
    /\ pc[h] = "idle"
    /\ \E m \in incoming : text' = [text EXCEPT ![h] = m]
    /\ pc' = [pc EXCEPT ![h] = "start"]
    /\ UNCHANGED <<foods, templates, loc, sent, escaped, composed, inp, out>>

\* the invocation is over: its locals are dropped, the transport is ready for
\* the next message
Return(h) ==
    /\ pc[h] = "done"
    /\ pc' = [pc EXCEPT ![h] = "idle"]
    /\ text' = [text EXCEPT ![h] = <<>>]
    /\ loc' = [loc EXCEPT ![h] = NoLocals]
    /\ sent' = [sent EXCEPT ![h] = <<>>]
    /\ escaped' = [escaped EXCEPT ![h] = "none"]
    /\ composed' = [composed EXCEPT ![h] = <<>>]
    /\ UNCHANGED <<foods, templates, inp, out>>

Globals ==
    /\ foods = FOODS_PER_100G
    /\ templates = MEAL_TEMPLATES

InitHandlers(H) ==
    /\ Globals
    /\ pc = [h \in H |-> "idle"]
    /\ text = [h \in H |-> <<>>]
    /\ loc = [h \in H |-> NoLocals]
    /\ sent = [h \in H |-> <<>>]
    /\ escaped = [h \in H |-> "none"]
    /\ composed = [h \in H |-> <<>>]

NoDirectCall ==
    /\ inp = NoCall
    /\ out = NoCall

Init == InitHandlers({1}) /\ NoDirectCall

Step(h) ==
    \/ Tokenize(h)
    \/ ParseWeight(h)
    \/ ParseRest(h)
    \/ CheckMeals(h)
    \/ BuildPlan(h)
    \/ BuildMeals(h)
    \/ SendPlan(h)

Next == \E h \in {1} : Receive(h, Messages) \/ Step(h) \/ Return(h)

Spec == Init /\ [][Next]_vars

InitConc == InitHandlers(1..NumHandlers) /\ NoDirectCall

NextConc == \E h \in 1..NumHandlers : Receive(h, ConcMessages) \/ Step(h) \/ Return(h)

SpecConc == InitConc /\ [][NextConc]_vars

----------------------------------------------------------------------------
(* Direct calls of the pure functions: the arguments are drawn in the       *)
(* initial state, one action applies the function                           *)

DirectCall(op, result) ==
    /\ inp.op = op
    /\ out = NoCall
    /\ out' = [op |-> op, res |-> result]
    /\ UNCHANGED <<foods, templates, handlerVars, inp>>

\* weights: 75, 7.5, 120, 0.5, infinity, NaN
Weights == {Fin(75, 1), Fin(15, 2), Fin(120, 1), Fin(1, 2), Inf(FALSE), NaN}

GoalStrings ==
    {<<"c", "u", "t">>,
     <<"C", "U", "T">>,
     <<" ", "C", "u", "t", " ">>,
     <<"b", "u", "l", "k">>,
     <<"M", "a", "i", "n", "t", "a", "i", "n">>,
     <<"m", "a", "i", "n", "t", "a", "i", "n", " ">>,
     <<"c", "u", "t", "t", "i", "n", "g">>,
     <<"h", "c">>}

StyleStrings ==
    {<<"h", "c">>,
     <<"H", "C">>,
     <<"H", "c">>,
     <<"h", "p">>,
     <<"H", "P">>,
     <<"H", "p">>,
     <<"h", "f">>,
     <<"H", "F">>,
     <<"H", "f">>,
     <<"h", "i", "g", "h", "c", "a", "r", "b">>,
     <<"H", "I", "G", "H", "C", "A", "R", "B">>,
     <<"H", "i", "g", "h", "c", "a", "r", "b">>,
     <<"m", "e", "n", "t", "z", "e", "r">>,
     <<"M", "E", "N", "T", "Z", "E", "R">>,
     <<"M", "e", "n", "t", "z", "e", "r">>,
     <<"h", "i", "g", "h", "p", "r", "o", "t", "e", "i", "n">>,
     <<"H", "I", "G", "H", "P", "R", "O", "T", "E", "I", "N">>,
     <<"H", "i", "g", "h", "p", "r", "o", "t", "e", "i", "n">>,
     <<"p", "r", "o", "t", "e", "i", "n">>,
     <<"P", "R", "O", "T", "E", "I", "N">>,
     <<"P", "r", "o", "t", "e", "i", "n">>,
     <<"h", "i", "g", "h", "f", "a", "t">>,
     <<"H", "I", "G", "H", "F", "A", "T">>,
     <<"H", "i", "g", "h", "f", "a", "t">>,
     <<"f", "a", "t">>,
     <<"F", "A", "T">>,
     <<"F", "a", "t">>,
     <<"k", "e", "t", "o">>,
     <<"h", "c", " ">>,
     <<"c", "u", "t">>}

InitPlan ==
    /\ InitHandlers({})
    /\ inp \in [op : {"mentzer_calories", "get_macro_split", "mentzer_plan"},
                weight_kg : Weights, goal : GoalStrings, macro_style : StyleStrings]
    /\ out = NoCall

CallCalories == DirectCall("mentzer_calories", mentzer_calories(inp.weight_kg, inp.goal))

CallSplit == DirectCall("get_macro_split", get_macro_split(inp.macro_style))

CallPlan ==
    DirectCall("mentzer_plan", mentzer_plan(inp.weight_kg, inp.goal, inp.macro_style))

NextPlan == CallCalories \/ CallSplit \/ CallPlan

SpecPlan == InitPlan /\ [][NextPlan]_vars

InitMacros ==
    /\ InitHandlers({})
    /\ inp \in [op : {"mentzer_macros"}, calories : 0..MaxCalories, style : DOMAIN macro_styles]
    /\ out = NoCall

CallMacros ==
    DirectCall("mentzer_macros",
               mentzer_macros(inp.calories, macro_styles[inp.style][1],
                              macro_styles[inp.style][2], macro_styles[inp.style][3]))

NextMacros == CallMacros

SpecMacros == InitMacros /\ [][NextMacros]_vars

\* daily gram values: the small ones, and those of the plans for 75 kg
GramValues == (0..MaxGrams) \cup {28, 103, 248}

InitMeals ==
    /\ InitHandlers({})
    /\ inp \in [op : {"build_daily_meals"}, protein_g : GramValues, carbs_g : GramValues,
                fats_g : GramValues, num_meals : 1..6]
    /\ out = NoCall

CallDailyMeals ==
    DirectCall("build_daily_meals",
               build_daily_meals(foods, templates,
                                 [protein_g |-> inp.protein_g, carbs_g |-> inp.carbs_g,
                                  fats_g |-> inp.fats_g], inp.num_meals))

NextMeals == CallDailyMeals

SpecMeals == InitMeals /\ [][NextMeals]_vars

FoodKeys == DOMAIN FOODS_PER_100G

\* per-meal targets, in grams
TargetValues == {10 * k : k \in 0..MaxTarget}

InitFoods ==
    /\ InitHandlers({})
    /\ inp \in [op : {"build_meal_from_foods"}, target_protein : TargetValues,
                target_carbs : TargetValues, target_fats : TargetValues,
                protein_food_key : FoodKeys, carb_food_key : FoodKeys,
                fat_food_key : FoodKeys]
    /\ out = NoCall

CallMeal ==
    DirectCall("build_meal_from_foods",
               [grams |-> meal_grams(foods, RInt(inp.target_protein),
                                     RInt(inp.target_carbs), RInt(inp.target_fats),
                                     inp.protein_food_key, inp.carb_food_key,
                                     inp.fat_food_key),
                items |-> build_meal_from_foods(foods, RInt(inp.target_protein),
                                                RInt(inp.target_carbs),
                                                RInt(inp.target_fats),
                                                inp.protein_food_key, inp.carb_food_key,
                                                inp.fat_food_key)])

NextFoods == CallMeal

SpecFoods == InitFoods /\ [][NextFoods]_vars

----------------------------------------------------------------------------
(* Claims about handle_message *)

\* handle_message has returned, or an exception has left it
Over(h) == pc[h] = "done"

\* C1: every incoming text message is answered: handle_message ends having
\* sent a reply, and no exception leaves it for the transport layer.
C1_AlwaysAnswered ==
    \A h \in Handlers : Over(h) => Len(sent[h]) = 1 /\ escaped[h] = "none"

\* C3: build_daily_meals is only ever called with a meal count in 1..6, and a
\* resolved meal count outside 1..6 is answered with the out-of-range reply
\* without the composer having been called.
C3_ComposerRange ==
    \A h \in Handlers :
        /\ \A i \in 1..Len(composed[h]) : composed[h][i] \in 1..6
        /\ pc[h] \in {"plan", "meals", "reply"} => loc[h].meals \in 1..6
        /\ (Over(h) /\ loc[h].meals \notin (1..6) \cup {NoLocals.meals})
           => sent[h] = <<MealsRangeReply>> /\ composed[h] = <<>>

\* a meal count of 7 (or 0) has been rejected with the out-of-range reply
C3_Witness ==
    \E h \in Handlers :
        /\ Over(h) /\ loc[h].meals \in {0, 7}
        /\ sent[h] = <<MealsRangeReply>> /\ composed[h] = <<>>

\* C4: with 3 tokens the third is the meal count iff all its characters are
\* decimal digits and the style otherwise; with 4 tokens the third is the
\* style and a fourth that is no digit string gets the parse-error reply,
\* no plan being computed.
C4_TokenRule ==
    [][\A h \in Handlers :
        (pc[h] = "rest" /\ pc'[h] # "rest") =>
            LET parts == loc[h].parts IN
            /\ (Len(parts) = 3 /\ IsDecimal(parts[3])) =>
                   /\ pc'[h] = "range"
                   /\ loc'[h].meals = DigitsVal(parts[3])
                   /\ loc'[h].macro_style = HC
            /\ (Len(parts) = 3 /\ ~IsDecimal(parts[3])) =>
                   /\ pc'[h] = "range"
                   /\ loc'[h].meals = 3
                   /\ loc'[h].macro_style = parts[3]
            /\ (Len(parts) = 4 /\ IsDecimal(parts[4])) =>
                   /\ pc'[h] = "range"
                   /\ loc'[h].meals = DigitsVal(parts[4])
                   /\ loc'[h].macro_style = parts[3]
            /\ (Len(parts) = 4 /\ ~IsDecimal(parts[4])) =>
                   /\ pc'[h] = "done"
                   /\ sent'[h] = <<MealsParseReply>>
                   /\ loc'[h].plan = NoPlan]_vars

\* the weight token is a number greater than 0
PositiveNumber(tok) ==
    LET w == ParseFloat(tok) IN
    \/ w.kind = "fin" /\ w.n > 0
    \/ w.kind = "inf" /\ ~w.neg

\* the reply of the first check that fails on the tokens, the checks taken
\* in the order: token count, weight, meal count, goal, style
FirstFailing(parts) ==
    LET rest == SubSeq(parts, 3, Len(parts))
        mealTok == IF Len(rest) = 2 THEN rest[2]
                   ELSE IF Len(rest) = 1 /\ IsDigit(rest[1]) THEN rest[1]
                   ELSE <<"3">>
        styleTok == IF Len(rest) = 2 THEN rest[1]
                    ELSE IF Len(rest) = 1 /\ ~IsDigit(rest[1]) THEN rest[1]
                    ELSE HC
    IN IF Len(parts) < 2 \/ Len(parts) > 4 THEN "format"
       ELSE IF ~PositiveNumber(parts[1]) THEN "weight"
       ELSE IF ~IsDecimal(mealTok) THEN "meals_parse"
       ELSE IF DigitsVal(mealTok) \notin 1..6 THEN "meals_range"
       ELSE IF parts[2] \notin {CUT, MAINTAIN, BULK} THEN "check_input"
       ELSE IF styleTok \notin {HC, HP, HF} \cup DOMAIN alias_map THEN "check_input"
       ELSE "plan"

\* C10: at most one reply per message; the reply is the plan summary only if
\* every validation passed; a message with several defects gets the reply of
\* the first failing check.
C10_FirstFailingCheck ==
    \A h \in Handlers :
        /\ Len(sent[h]) <= 1
        /\ (Over(h) /\ sent[h] # <<>>) =>
               sent[h][1].kind = FirstFailing(Split(Lower(Strip(text[h]))))

\* the replies handle_message sends for the text t when it is the only
\* message ever handled, the tables being as initialised
handle_message_alone(t) ==
    LET parts == Split(Lower(Strip(t)))
        weight_kg == ParseFloat(parts[1])
        remaining == SubSeq(parts, 3, Len(parts))
        digitTok == IF Len(remaining) = 2 THEN remaining[2] ELSE remaining[1]
        meals == IF Len(remaining) = 0 \/ (Len(remaining) = 1 /\ ~IsDigit(remaining[1]))
                   THEN 3
                 ELSE ParseInt(digitTok).val
        macro_style == IF Len(remaining) = 0 \/ (Len(remaining) = 1 /\ IsDigit(remaining[1]))
                         THEN HC
                       ELSE remaining[1]
        plan == mentzer_plan(weight_kg, parts[2], macro_style)
    IN IF t = <<>> THEN <<>>
       ELSE IF Len(parts) < 2 \/ Len(parts) > 4 THEN <<FormatReply>>
       ELSE IF weight_kg.kind = "err" \/ FloatLeqZero(weight_kg) THEN <<WeightReply>>
       ELSE IF Len(remaining) > 0 /\ (Len(remaining) = 2 \/ IsDigit(remaining[1]))
               /\ ~(IsDigit(digitTok) /\ ParseInt(digitTok).exc = "none")
         THEN <<MealsParseReply>>
       ELSE IF meals < 1 \/ meals > 6 THEN <<MealsRangeReply>>
       ELSE IF plan.exc = "ValueError" THEN <<CheckInputReply>>
       ELSE IF plan.exc # "none" THEN <<>>
       ELSE <<PlanReply(weight_kg, parts[2], plan.val, meals,
                        build_daily_meals(FOODS_PER_100G, MEAL_TEMPLATES, plan.val, meals))>>

\* C9: under every interleaving of handle_message invocations the two tables
\* are never written, and the reply sent for a message is the reply it gets
\* when it is the only message handled.
C9_Stateless ==
    /\ foods = FOODS_PER_100G
    /\ templates = MEAL_TEMPLATES
    /\ \A h \in Handlers : Over(h) => sent[h] = handle_message_alone(text[h])

\* a plan summary has been sent while another invocation, started before,
\* is between building its plan and sending its reply
C9_Witness ==
    \E h1, h2 \in Handlers :
        /\ h1 # h2
        /\ Over(h1) /\ sent[h1] # <<>> /\ sent[h1][1].kind = "plan"
        /\ pc[h2] \in {"meals", "reply"}
        /\ text[h1] # text[h2]

----------------------------------------------------------------------------
(* Claims about the pure functions *)

Called(op) == out # NoCall /\ out.op = op

\* the goal keyword a goal string stands for, <<>> when it is none
GoalOf(goal) ==
    LET g == Lower(Strip(goal)) IN IF g \in {CUT, MAINTAIN, BULK} THEN g ELSE <<>>

Multiplier(g) == IF g = CUT THEN 10 ELSE IF g = MAINTAIN THEN 12 ELSE 15

PositiveWeight(w) == (w.kind = "fin" /\ w.n > 0) \/ (w.kind = "inf" /\ ~w.neg)

\* C5: for every weight w > 0, mentzer_calories(w, g) returns
\* round(w * 2.20462 * multiplier), multiplier cut=10, maintain=12, bulk=15,
\* when g trimmed and lower-cased is one of the three goals (75 kg, cut:
\* 1653), and raises the invalid-goal error for every other g.
C5_Calories ==
    (Called("mentzer_calories") /\ PositiveWeight(inp.weight_kg)) =>
        IF GoalOf(inp.goal) = <<>> THEN out.res.exc = "ValueError"
        ELSE /\ out.res.exc = "none"
             /\ inp.weight_kg.kind = "fin"
             /\ out.res.val = Round(Rat(inp.weight_kg.n * 220462 * Multiplier(GoalOf(inp.goal)),
                                        inp.weight_kg.d * 100000))
             /\ (inp.weight_kg = Fin(75, 1) /\ GoalOf(inp.goal) = CUT) => out.res.val = 1653

\* the canonical style of an accepted keyword, <<>> for any other string
CanonicalStyle(style) ==
    LET k == Lower(style) IN
    IF k \in {HC, HIGHCARB, MENTZER} THEN HC
    ELSE IF k \in {HP, HIGHPROTEIN, PROTEIN} THEN HP
    ELSE IF k \in {HF, HIGHFAT, FAT} THEN HF
    ELSE <<>>

\* C6: every accepted style keyword, in any letter case, resolves to three
\* percentages that sum to exactly 1 and to the triple and key of its
\* canonical style; mentzer_plan never fails in mentzer_macros.
C6_SplitSumsToOne ==
    /\ Called("get_macro_split") =>
           IF CanonicalStyle(inp.macro_style) = <<>> THEN out.res.exc = "ValueError"
           ELSE /\ out.res.exc = "none"
                /\ RAdd(RAdd(out.res.val.pcts[1], out.res.val.pcts[2]), out.res.val.pcts[3])
                       = RInt(1)
                /\ out.res.val.key = CanonicalStyle(inp.macro_style)
                /\ out.res.val = get_macro_split(CanonicalStyle(inp.macro_style)).val
    /\ (Called("mentzer_plan") /\ out.res.exc # "none") =>
           \/ mentzer_calories(inp.weight_kg, inp.goal).exc # "none"
           \/ get_macro_split(inp.macro_style).exc # "none"

\* an alias in upper case has been resolved, and a plan computed through it
C6_Witness ==
    \/ Called("get_macro_split") /\ inp.macro_style = <<"M", "E", "N", "T", "Z", "E", "R">>
           /\ out.res.exc = "none" /\ out.res.val.key = HC
    \/ Called("mentzer_plan") /\ inp.macro_style = <<"P", "R", "O", "T", "E", "I", "N">>
           /\ out.res.exc = "none" /\ out.res.val.macro_style = HP

\* |grams * kcalPerGram - calories * pct| <= bound, the bound given as a ratio
WithinKcal(grams, kcalPerGram, calories, pct, boundNum, boundDen) ==
    Abs(grams * kcalPerGram * pct.d - calories * pct.n) * boundDen <= boundNum * pct.d

C2_MealsShape ==
    Called("build_daily_meals") =>
        /\ Len(out.res) = inp.num_meals
        /\ \A i \in 1..Len(out.res) :
               /\ Len(out.res[i].items) = 3
               /\ out.res[i].items[1][1] = MEAL_TEMPLATES[i].protein
               /\ out.res[i].items[2][1] = MEAL_TEMPLATES[i].carb
               /\ out.res[i].items[3][1] = MEAL_TEMPLATES[i].fat
               /\ \A j \in 1..3 : out.res[i].items[j][2] >= 0

\* six meals, one of them with a fat food clamped to 0 g although the plan
\* has fat, another with a fat food above 0 g
C2_Witness ==
    /\ Called("build_daily_meals")
    /\ inp.num_meals = 6 /\ inp.fats_g > 0
    /\ \E i, k \in 1..Len(out.res) : out.res[i].items[3][2] = 0 /\ out.res[k].items[3][2] > 0

\* the grams the waterfall asks of a food: 0 when the food has none of the macro
Needed(target, per100) == IF per100.n <= 0 THEN RInt(0) ELSE RDiv(RMul(target, RInt(100)), per100)

\* what is left of a target, floored at 0
Left(target, contributed) ==
    IF RLeq(target, contributed) THEN RInt(0) ELSE RSub(target, contributed)

\* the macro a quantity of food contributes
Contributed(per100, grams) == RDiv(RMul(per100, grams), RInt(100))

\* C8: the one-directional waterfall: protein-food grams from the protein
\* target alone; carb-food grams from what the protein food leaves of the
\* carb target; fat-food grams from what the protein food and then the carb
\* food leave of the fat target; 0 g for a role food without its macro; the
\* protein-food grams are those of the same call with no carb and fat target,
\* and the first two foods' grams are those of the same call with another
\* fat food (peanut butter, which has protein and carbs).
C8_Waterfall ==
    Called("build_meal_from_foods") =>
        LET p == FOODS_PER_100G[inp.protein_food_key]
            c == FOODS_PER_100G[inp.carb_food_key]
            f == FOODS_PER_100G[inp.fat_food_key]
            tp == RInt(inp.target_protein)
            tc == RInt(inp.target_carbs)
            tf == RInt(inp.target_fats)
            pg == Needed(tp, p.protein)
            cg == Needed(Left(tc, Contributed(p.carbs, pg)), c.carbs)
            fg == Needed(Left(Left(tf, Contributed(p.fat, pg)), Contributed(c.fat, cg)), f.fat)
        IN /\ out.res.grams = <<pg, cg, fg>>
           /\ out.res.items = <<<<inp.protein_food_key, Round(pg)>>,
                                <<inp.carb_food_key, Round(cg)>>,
                                <<inp.fat_food_key, Round(fg)>>>>
           /\ LET g == meal_grams(FOODS_PER_100G, tp, RInt(0), RInt(0),
                               inp.protein_food_key, inp.carb_food_key, "olive_oil")
              IN g[1] = out.res.grams[1]
           /\ LET g == meal_grams(FOODS_PER_100G, tp, tc, tf, inp.protein_food_key,
                               inp.carb_food_key, "peanut_butter")
              IN g[1] = out.res.grams[1] /\ g[2] = out.res.grams[2]

\* every stage of the waterfall has taken something: the protein food has
\* carbs and fat, the carb food has fat, and all three foods are above 0 g
C8_Witness ==
    /\ Called("build_meal_from_foods")
    /\ FOODS_PER_100G[inp.protein_food_key].carbs.n > 0
    /\ FOODS_PER_100G[inp.protein_food_key].fat.n > 0
    /\ FOODS_PER_100G[inp.carb_food_key].fat.n > 0
    /\ \A j \in 1..3 : out.res.items[j][2] > 0

====
